---- MODULE Spec2Model ----
(***************************************************************************)
(* Circuit evaluation engine of happy-circuits: evaluateCircuit,          *)
(* detectCycleConnections and wouldCreateCycle, each modelled as the      *)
(* source computes it, and the caller's loop of edits and passes around   *)
(* them.                                                                  *)
(*                                                                        *)
(* Conventions.  Pin indices and array indices are 0-based as in the      *)
(* source; At(arr, i) reads arr[i] ?? false.  A Record<string, boolean[]> *)
(* is a function whose DOMAIN is its key set.  An optional value is a     *)
(* sequence of length 0 (undefined) or 1 (the value).  A call's outcome   *)
(* is [threw, outputs]: threw is TRUE when the call stack was exhausted   *)
(* (RangeError), and then there is no result map.                         *)
(***************************************************************************)
EXTENDS Integers, Sequences, FiniteSets, TLC

\* ------------------------------------------------------------------ bounds

\* Frames of evaluateCircuit the host's call stack holds before RangeError.
StackLimit == 3

\* ----------------------------------------------------------------- helpers

\* arr[i] ?? false, i 0-based.
At(arr, i) == IF (i + 1) \in DOMAIN arr THEN arr[i + 1] ELSE FALSE

\* map[key] || []
Get(map, key) == IF key \in DOMAIN map THEN map[key] ELSE <<>>

\* map[key] = value
Put(map, key, value) ==
  [k \in (DOMAIN map) \cup {key} |-> IF k = key THEN value ELSE map[k]]

EmptyMap == [k \in {} |-> <<>>]

Range(s) == {s[i] : i \in DOMAIN s}

\* Set.add on an insertion-ordered Set kept as a duplicate-free sequence.
SetAdd(s, x) == IF x \in Range(s) THEN s ELSE Append(s, x)

\* nodes.find(n => n.id === id): index of the first match, 0 when none.
FindNode(nodes, id) ==
  IF \E i \in DOMAIN nodes : nodes[i].id = id
  THEN CHOOSE i \in DOMAIN nodes :
         nodes[i].id = id /\ \A j \in 1..(i - 1) : nodes[j].id # id
  ELSE 0

\* connections.find(c => c.toNodeId === nodeId && c.toPinIndex === pin):
\* index of the first match, 0 when none.
FindConn(connections, nodeId, pin) ==
  IF \E i \in DOMAIN connections :
       connections[i].toNodeId = nodeId /\ connections[i].toPinIndex = pin
  THEN CHOOSE i \in DOMAIN connections :
         /\ connections[i].toNodeId = nodeId /\ connections[i].toPinIndex = pin
         /\ \A j \in 1..(i - 1) :
              ~(connections[j].toNodeId = nodeId /\ connections[j].toPinIndex = pin)
  ELSE 0

\* inputNodeIds.indexOf(id), 0-based, -1 when absent.
IndexOf(ids, id) ==
  IF \E i \in DOMAIN ids : ids[i] = id
  THEN (CHOOSE i \in DOMAIN ids : ids[i] = id /\ \A j \in 1..(i - 1) : ids[j] # id) - 1
  ELSE -1

NodeIdSet(nodes) == {nodes[i].id : i \in DOMAIN nodes}

\* ------------------------------------------------- Graph Indexer (11-23)

\* The connections the adjacency keeps: both endpoints are nodes of the list.
Indexed(nodes, conn) ==
  conn.fromNodeId \in NodeIdSet(nodes) /\ conn.toNodeId \in NodeIdSet(nodes)

RECURSIVE OutEdgesOf(_, _, _, _)
\* outEdges[id] after the first i connections were added.
OutEdgesOf(nodes, connections, id, i) ==
  IF i = 0 THEN <<>>
  ELSE LET rest == OutEdgesOf(nodes, connections, id, i - 1)
           conn == connections[i]
       IN IF Indexed(nodes, conn) /\ conn.fromNodeId = id
          THEN SetAdd(rest, conn.toNodeId)
          ELSE rest

OutEdges(nodes, connections) ==
  [id \in NodeIdSet(nodes) |-> OutEdgesOf(nodes, connections, id, Len(connections))]

InEdges(nodes, connections) ==
  [id \in NodeIdSet(nodes) |->
     {connections[i].fromNodeId : i \in
        {j \in DOMAIN connections :
           Indexed(nodes, connections[j]) /\ connections[j].toNodeId = id}}]

\* ------------------------------------------- Topological Sequencer (25-49)

\* InDegree read from outEdges instead of inEdges.
InDegreeOfOutEdges(nodes, connections) ==
  [id \in NodeIdSet(nodes) |-> Len(OutEdges(nodes, connections)[id])]

\* InDegree counted from the connection list, absent sources included.
InDegreeOfConnections(nodes, connections) ==
  [id \in NodeIdSet(nodes) |->
     Cardinality({connections[j].fromNodeId :
                    j \in {k \in DOMAIN connections : connections[k].toNodeId = id}})]

InDegree(nodes, connections) ==
  LET inEdges == InEdges(nodes, connections)
  IN [id \in NodeIdSet(nodes) |-> Cardinality(inEdges[id])]

RECURSIVE InitialQueueAll(_, _, _)
\* InitialQueue with the in-degree test left out: every node is queued.
InitialQueueAll(nodes, inDegree, i) ==
  IF i = 0 THEN <<>>
  ELSE Append(InitialQueueAll(nodes, inDegree, i - 1), nodes[i].id)

RECURSIVE InitialQueue(_, _, _)
\* The ids of nodes[1..i] whose in-degree is 0, in list order.
InitialQueue(nodes, inDegree, i) ==
  IF i = 0 THEN <<>>
  ELSE LET rest == InitialQueue(nodes, inDegree, i - 1)
       IN IF inDegree[nodes[i].id] = 0 THEN Append(rest, nodes[i].id) ELSE rest

RECURSIVE RelaxPostDecrement(_, _, _, _)
\* Relax with the test written inDegree[next]-- === 0: it sees the count
\* before the decrement, so no successor is ever queued.
RelaxPostDecrement(nexts, i, inDegree, queue) ==
  IF i > Len(nexts) THEN [inDegree |-> inDegree, queue |-> queue]
  ELSE LET next == nexts[i]
       IN RelaxPostDecrement(nexts, i + 1,
                             [inDegree EXCEPT ![next] = inDegree[next] - 1],
                             IF inDegree[next] = 0 THEN Append(queue, next) ELSE queue)

RECURSIVE Relax(_, _, _, _)
\* for (const next of outEdges[id]) { inDegree[next]--; if 0, queue.push(next) }
Relax(nexts, i, inDegree, queue) ==
  IF i > Len(nexts) THEN [inDegree |-> inDegree, queue |-> queue]
  ELSE LET next == nexts[i]
           d == inDegree[next] - 1
       IN Relax(nexts, i + 1, [inDegree EXCEPT ![next] = d],
                IF d = 0 THEN Append(queue, next) ELSE queue)

RECURSIVE KahnLoop(_, _, _, _)
KahnLoop(queue, sorted, inDegree, outEdges) ==
  IF queue = <<>> THEN sorted
  ELSE LET id == Head(queue)
           r == Relax(outEdges[id], 1, inDegree, Tail(queue))
       IN KahnLoop(r.queue, Append(sorted, id), r.inDegree, outEdges)

\* `sorted` when the while loop of line 33 ends: the acyclic nodes in order.
TopologicalSort(nodes, connections) ==
  LET inDegree == InDegree(nodes, connections)
  IN KahnLoop(InitialQueue(nodes, inDegree, Len(nodes)), <<>>, inDegree,
              OutEdges(nodes, connections))

RECURSIVE CollectCycleNodes(_, _, _, _)
\* Lines 43-49: the nodes the sort left out, in list order; each is also
\* appended to `sorted`, so a repeated id is collected once.
CollectCycleNodes(nodes, i, sorted, cycleNodeIds) ==
  IF i > Len(nodes) THEN [sorted |-> sorted, cycleNodeIds |-> cycleNodeIds]
  ELSE IF nodes[i].id \in Range(sorted)
       THEN CollectCycleNodes(nodes, i + 1, sorted, cycleNodeIds)
       ELSE CollectCycleNodes(nodes, i + 1, Append(sorted, nodes[i].id),
                              Append(cycleNodeIds, nodes[i].id))

Sequence(nodes, connections) ==
  CollectCycleNodes(nodes, 1, TopologicalSort(nodes, connections), <<>>)

\* SeedOutputs with the seeding left out.
SeedOutputsNone(cycleNodeIds, previousOutputs) == EmptyMap

\* Lines 51-59: outputs seeded with the previous outputs of the cycle nodes.
SeedOutputs(cycleNodeIds, previousOutputs) ==
  IF previousOutputs = <<>> THEN EmptyMap
  ELSE LET prev == previousOutputs[1]
       IN [id \in Range(cycleNodeIds) \cap DOMAIN prev |-> prev[id]]

\* --------------------------------------------------- Node Semantics (64-114)

\* node.pinBarMode || 'input'
PinBarMode(node) == IF node.pinBarMode = "undefined" THEN "input" ELSE node.pinBarMode

\* node.inputValue ?? false
HeldValue(node) == IF node.inputValue = <<>> THEN FALSE ELSE node.inputValue[1]

\* ReadFrom without the frozen snapshot: every input is read live.
ReadFromLive(isCyclePass, fromNodeId, cycleSet, outputs, frozenOutputs) == outputs

\* Lines 69 and 76: the table an input is read from.
ReadFrom(isCyclePass, fromNodeId, cycleSet, outputs, frozenOutputs) ==
  IF fromNodeId \in cycleSet THEN frozenOutputs
  ELSE IF isCyclePass THEN frozenOutputs ELSE outputs

\* Lines 71-81: one value per declared input pin.
InputValues(node, connections, isCyclePass, cycleSet, outputs, frozenOutputs) ==
  [k \in 1..node.inputCount |->
     LET c == FindConn(connections, node.id, k - 1)
     IN IF c # 0
        THEN At(Get(ReadFrom(isCyclePass, connections[c].fromNodeId, cycleSet,
                             outputs, frozenOutputs),
                    connections[c].fromNodeId),
                connections[c].fromPinIndex)
        ELSE FALSE]

\* Lines 101-114.
PinBarOutput(node, inputValues) ==
  IF PinBarMode(node) = "input"
  THEN [i \in 1..node.outputCount |-> At(node.pinBarValues, i - 1)]
  ELSE SubSeq(inputValues, 1,
              IF node.inputCount < Len(inputValues) THEN node.inputCount
              ELSE Len(inputValues))

\* GateOutput with NOT passing its input through.
GateOutputNoNegation(node, inputValues) ==
  CASE node.type \in {"INPUT", "BUTTON"} -> <<HeldValue(node)>>
    [] node.type = "AND" ->
         <<Len(inputValues) >= 2 /\ At(inputValues, 0) /\ At(inputValues, 1)>>
    [] node.type = "OR" ->
         <<Len(inputValues) >= 2 /\ (At(inputValues, 0) \/ At(inputValues, 1))>>
    [] node.type \in {"NOT", "OUTPUT", "LED"} -> <<At(inputValues, 0)>>
    [] node.type = "PINBAR" -> PinBarOutput(node, inputValues)
    [] OTHER -> <<FALSE>>

\* GateOutput with the LED case missing: an LED falls to the default.
GateOutputNoLed(node, inputValues) ==
  CASE node.type \in {"INPUT", "BUTTON"} -> <<HeldValue(node)>>
    [] node.type = "AND" ->
         <<Len(inputValues) >= 2 /\ At(inputValues, 0) /\ At(inputValues, 1)>>
    [] node.type = "OR" ->
         <<Len(inputValues) >= 2 /\ (At(inputValues, 0) \/ At(inputValues, 1))>>
    [] node.type = "NOT" -> <<~At(inputValues, 0)>>
    [] node.type = "OUTPUT" -> <<At(inputValues, 0)>>
    [] node.type = "PINBAR" -> PinBarOutput(node, inputValues)
    [] OTHER -> <<FALSE>>

\* GateOutput with OR computed as AND.
GateOutputOrAsAnd(node, inputValues) ==
  CASE node.type \in {"INPUT", "BUTTON"} -> <<HeldValue(node)>>
    [] node.type \in {"AND", "OR"} ->
         <<Len(inputValues) >= 2 /\ At(inputValues, 0) /\ At(inputValues, 1)>>
    [] node.type = "NOT" -> <<~At(inputValues, 0)>>
    [] node.type \in {"OUTPUT", "LED"} -> <<At(inputValues, 0)>>
    [] node.type = "PINBAR" -> PinBarOutput(node, inputValues)
    [] OTHER -> <<FALSE>>

\* Lines 83-100 and 191-192: every kind but MODULE.
GateOutput(node, inputValues) ==
  CASE node.type \in {"INPUT", "BUTTON"} -> <<HeldValue(node)>>
    [] node.type = "AND" ->
         <<Len(inputValues) >= 2 /\ At(inputValues, 0) /\ At(inputValues, 1)>>
    [] node.type = "OR" ->
         <<Len(inputValues) >= 2 /\ (At(inputValues, 0) \/ At(inputValues, 1))>>
    [] node.type = "NOT" -> <<~At(inputValues, 0)>>
    [] node.type \in {"OUTPUT", "LED"} -> <<At(inputValues, 0)>>
    [] node.type = "PINBAR" -> PinBarOutput(node, inputValues)
    [] OTHER -> <<FALSE>>

\* -------------------------------------------------- Module Expander (115-190)

\* modules.find(m => m.id === node.moduleId): index, 0 when none.
FindModule(modules, moduleId) ==
  IF \E i \in DOMAIN modules : modules[i].id = moduleId
  THEN CHOOSE i \in DOMAIN modules :
         modules[i].id = moduleId /\ \A j \in 1..(i - 1) : modules[j].id # moduleId
  ELSE 0

\* FlattenWidth with a PINBAR terminal taking one slot.
FlattenWidthOne(moduleDef, inId) ==
  IF FindNode(moduleDef.nodes, inId) = 0 THEN 0
  ELSE IF moduleDef.nodes[FindNode(moduleDef.nodes, inId)].type \in {"INPUT", "PINBAR"}
       THEN 1 ELSE 0

\* Slots a terminal of inputNodeIds takes while flattening (124-133): an id
\* that names no node is skipped, an INPUT takes one, a PINBAR its outputCount.
FlattenWidth(moduleDef, inId) ==
  LET n == FindNode(moduleDef.nodes, inId)
  IN IF n = 0 THEN 0
     ELSE IF moduleDef.nodes[n].type = "INPUT" THEN 1
     ELSE IF moduleDef.nodes[n].type = "PINBAR" THEN moduleDef.nodes[n].outputCount
     ELSE 0

RECURSIVE ModuleInputValues(_, _, _)
\* Lines 119-134, after the first k ids of inputNodeIds.
ModuleInputValues(moduleDef, inputValues, k) ==
  IF k = 0 THEN <<>>
  ELSE LET rest == ModuleInputValues(moduleDef, inputValues, k - 1)
           inputIdx == Len(rest)
           w == FlattenWidth(moduleDef, moduleDef.inputNodeIds[k])
       IN rest \o [pi \in 1..w |-> At(inputValues, inputIdx + pi - 1)]

\* ActualIdx with every earlier terminal counted as one pin.
ActualIdxByPosition(moduleDef, idx) ==
  IF idx <= 0 THEN 0 ELSE idx

RECURSIVE ActualIdx(_, _)
\* Lines 141-146 and 153-158: the offset of the terminal at position idx.
ActualIdx(moduleDef, idx) ==
  IF idx <= 0 THEN 0
  ELSE LET p == FindNode(moduleDef.nodes, moduleDef.inputNodeIds[idx])
       IN ActualIdx(moduleDef, idx - 1)
          + (IF p # 0 /\ moduleDef.nodes[p].type = "PINBAR"
             THEN moduleDef.nodes[p].outputCount ELSE 1)

\* Lines 136-164: the working copy of the body, terminals holding the inputs.
InternalNode(moduleDef, moduleInputValues, n) ==
  LET idx == IndexOf(moduleDef.inputNodeIds, n.id)
      actualIdx == ActualIdx(moduleDef, idx)
  IN IF n.type = "INPUT" /\ idx >= 0
     THEN [n EXCEPT !.inputValue = <<At(moduleInputValues, actualIdx)>>]
     ELSE IF n.type = "PINBAR" /\ PinBarMode(n) = "input" /\ idx >= 0
     THEN [n EXCEPT !.pinBarValues =
             [pi \in 1..n.outputCount |-> At(moduleInputValues, actualIdx + pi - 1)]]
     ELSE n

InternalNodes(moduleDef, moduleInputValues) ==
  [i \in DOMAIN moduleDef.nodes |->
     InternalNode(moduleDef, moduleInputValues, moduleDef.nodes[i])]

\* TerminalBits with every terminal traced through the internal wiring, an
\* OUTPUT through its pin 0.
TerminalBitsTraced(moduleDef, internalOutputs, outId) ==
  LET o == FindNode(moduleDef.nodes, outId)
  IN IF o # 0
     THEN [k \in 1..moduleDef.nodes[o].inputCount |->
             LET c == FindConn(moduleDef.connections, outId, k - 1)
             IN IF c # 0
                THEN At(Get(internalOutputs, moduleDef.connections[c].fromNodeId),
                        moduleDef.connections[c].fromPinIndex)
                ELSE FALSE]
     ELSE <<At(Get(internalOutputs, outId), 0)>>

\* Lines 170-183: the bits one id of outputNodeIds contributes.
TerminalBits(moduleDef, internalOutputs, outId) ==
  LET o == FindNode(moduleDef.nodes, outId)
  IN IF o # 0 /\ moduleDef.nodes[o].type = "PINBAR"
          /\ moduleDef.nodes[o].pinBarMode = "output"
     THEN [k \in 1..moduleDef.nodes[o].inputCount |->
             LET c == FindConn(moduleDef.connections, outId, k - 1)
             IN IF c # 0
                THEN At(Get(internalOutputs, moduleDef.connections[c].fromNodeId),
                        moduleDef.connections[c].fromPinIndex)
                ELSE FALSE]
     ELSE <<At(Get(internalOutputs, outId), 0)>>

RECURSIVE ModuleResult(_, _, _)
\* Lines 168-184, after the first k ids of outputNodeIds.
ModuleResult(moduleDef, internalOutputs, k) ==
  IF k = 0 THEN <<>>
  ELSE ModuleResult(moduleDef, internalOutputs, k - 1)
       \o TerminalBits(moduleDef, internalOutputs, moduleDef.outputNodeIds[k])

RECURSIVE evaluateCircuit(_, _, _, _, _)

\* An outcome of evaluateCircuit that is a RangeError, not a result map.
Thrown == [threw |-> TRUE, outputs |-> EmptyMap]

\* Lines 168-185: the MODULE node's vector from the nested call's outcome.
ModuleOutcome(moduleDef, internal) ==
  IF internal.threw THEN [threw |-> TRUE, value |-> <<>>]
  ELSE [threw |-> FALSE,
        value |-> ModuleResult(moduleDef, internal.outputs,
                               Len(moduleDef.outputNodeIds))]

\* ExpandModule with the nested call given a previous-outputs map: every
\* node of the body seeded [true].
ExpandModuleSeeded(moduleDef, inputValues, modules, depth) ==
  ModuleOutcome(moduleDef,
    evaluateCircuit(
      InternalNodes(moduleDef,
        ModuleInputValues(moduleDef, inputValues, Len(moduleDef.inputNodeIds))),
      moduleDef.connections, modules,
      <<[id \in NodeIdSet(moduleDef.nodes) |-> <<TRUE>>]>>, depth + 1))

\* ExpandModule with a depth guard: a nested instance is not expanded and
\* yields false bits.
ExpandModuleCapped(moduleDef, inputValues, modules, depth) ==
  IF depth >= 2
  THEN [threw |-> FALSE, value |-> [k \in 1..moduleDef.outputCount |-> FALSE]]
  ELSE ModuleOutcome(moduleDef,
         evaluateCircuit(
           InternalNodes(moduleDef,
             ModuleInputValues(moduleDef, inputValues, Len(moduleDef.inputNodeIds))),
           moduleDef.connections, modules, <<>>, depth + 1))

\* Lines 118-185 for the definition found; the nested call of line 166 gets
\* no previousOutputs and takes one more frame.
ExpandModule(moduleDef, inputValues, modules, depth) ==
  ModuleOutcome(moduleDef,
    evaluateCircuit(
      InternalNodes(moduleDef,
        ModuleInputValues(moduleDef, inputValues, Len(moduleDef.inputNodeIds))),
      moduleDef.connections, modules, <<>>, depth + 1))

\* EvaluateModule with an unresolved reference falling to the default [false].
EvaluateModuleDefault(node, inputValues, modules, depth) ==
  IF FindModule(modules, node.moduleId) = 0
  THEN [threw |-> FALSE, value |-> <<FALSE>>]
  ELSE ExpandModule(modules[FindModule(modules, node.moduleId)], inputValues,
                    modules, depth)

\* Lines 115-190: [threw, value].
EvaluateModule(node, inputValues, modules, depth) ==
  IF FindModule(modules, node.moduleId) = 0
  THEN [threw |-> FALSE, value |-> [i \in 1..node.outputCount |-> FALSE]]
  ELSE ExpandModule(modules[FindModule(modules, node.moduleId)], inputValues,
                    modules, depth)

\* outputs[nodeId] = value, unless computing the value threw.
Store(st, nodeId, r) ==
  IF r.threw THEN [threw |-> TRUE, outputs |-> st.outputs]
  ELSE [threw |-> FALSE, outputs |-> Put(st.outputs, nodeId, r.value)]

\* Lines 83-193: the switch on node.type.
NodeOutput(ctx, node, inputValues) ==
  IF node.type = "MODULE"
  THEN EvaluateModule(node, inputValues, ctx.modules, ctx.depth)
  ELSE [threw |-> FALSE, value |-> GateOutput(node, inputValues)]

\* Lines 68-193 for the node found.
EvaluateFound(ctx, node, isCyclePass, st, frozenOutputs) ==
  Store(st, node.id,
        NodeOutput(ctx, node,
                   InputValues(node, ctx.connections, isCyclePass, ctx.cycleSet,
                               st.outputs, frozenOutputs)))

\* Lines 64-194: evaluateNode; st is [threw, outputs], ctx the enclosing
\* call's nodes, connections, modules, cycleSet and depth.
evaluateNode(ctx, nodeId, isCyclePass, st, frozenOutputs) ==
  IF FindNode(ctx.nodes, nodeId) = 0 THEN st
  ELSE EvaluateFound(ctx, ctx.nodes[FindNode(ctx.nodes, nodeId)], isCyclePass, st,
                     frozenOutputs)

\* ------------------------------------------------ the two passes (196-215)

RECURSIVE Pass1(_, _, _, _, _)
\* Lines 197-201: the acyclic nodes in topological order, on live values.
Pass1(ctx, sorted, i, st, frozenOutputs) ==
  IF i > Len(sorted) \/ st.threw THEN st
  ELSE IF sorted[i] \in ctx.cycleSet
       THEN Pass1(ctx, sorted, i + 1, st, frozenOutputs)
       ELSE Pass1(ctx, sorted, i + 1,
                  evaluateNode(ctx, sorted[i], FALSE, st, frozenOutputs),
                  frozenOutputs)

\* RefreshFrozen left out: pass 2 sees only the seeded values.
RefreshFrozenSkipped(sorted, cycleSet, outputs, frozenOutputs) == frozenOutputs

\* Lines 204-208: the frozen snapshot takes the acyclic results.
RefreshFrozen(sorted, cycleSet, outputs, frozenOutputs) ==
  [id \in (DOMAIN frozenOutputs)
          \cup {x \in Range(sorted) : x \notin cycleSet /\ x \in DOMAIN outputs} |->
     IF id \in Range(sorted) /\ id \notin cycleSet /\ id \in DOMAIN outputs
     THEN outputs[id] ELSE frozenOutputs[id]]

RECURSIVE Pass2Lazy(_, _, _, _, _)
\* Pass2 passing over a node that already has an entry.
Pass2Lazy(ctx, order, i, st, frozenOutputs) ==
  IF i > Len(order) \/ st.threw THEN st
  ELSE Pass2Lazy(ctx, order, i + 1,
                 IF order[i] \in DOMAIN st.outputs THEN st
                 ELSE evaluateNode(ctx, order[i], TRUE, st, frozenOutputs),
                 frozenOutputs)

RECURSIVE Pass2(_, _, _, _, _)
\* Lines 211-213: the cycle nodes, in the order given.
Pass2(ctx, order, i, st, frozenOutputs) ==
  IF i > Len(order) \/ st.threw THEN st
  ELSE Pass2(ctx, order, i + 1,
             evaluateNode(ctx, order[i], TRUE, st, frozenOutputs), frozenOutputs)

\* Line 52: what evaluateNode closes over.
Context(nodes, connections, modules, cycleNodeIds, depth) ==
  [nodes |-> nodes, connections |-> connections, modules |-> modules,
   cycleSet |-> Range(cycleNodeIds), depth |-> depth]

\* Lines 203-208: the call's state when pass 2 starts.
AfterPass1(ctx, seq, seeded, st1) ==
  [ctx |-> ctx, cycleNodeIds |-> seq.cycleNodeIds, st |-> st1,
   frozenOutputs |-> RefreshFrozen(seq.sorted, ctx.cycleSet, st1.outputs, seeded)]

\* Lines 62 and 196-201: frozenOutputs is a copy of the seeded outputs.
RunPass1(ctx, seq, seeded) ==
  AfterPass1(ctx, seq, seeded,
             Pass1(ctx, seq.sorted, 1, [threw |-> FALSE, outputs |-> seeded], seeded))

\* Lines 42-201, given the sequence.
Sequenced(nodes, connections, modules, previousOutputs, depth, seq) ==
  RunPass1(Context(nodes, connections, modules, seq.cycleNodeIds, depth), seq,
           SeedOutputs(seq.cycleNodeIds, previousOutputs))

\* Lines 9-208.
BeforePass2(nodes, connections, modules, previousOutputs, depth) ==
  Sequenced(nodes, connections, modules, previousOutputs, depth,
            Sequence(nodes, connections))

\* Lines 210-213, in the order `order` of the cycle nodes.
RunPass2(b, order) == Pass2(b.ctx, order, 1, b.st, b.frozenOutputs)

\* Line 215, or the error unwinding the call.
Return(st) == IF st.threw THEN Thrown ELSE st

\* Lines 210-215: the source's order is cycleNodeIds.
Phase2(b) == Return(RunPass2(b, b.cycleNodeIds))

\* Lines 3-216.  A call deeper than the stack holds throws RangeError, and
\* the error unwinds every enclosing call.
evaluateCircuit(nodes, connections, modules, previousOutputs, depth) ==
  IF depth > StackLimit THEN Thrown
  ELSE Phase2(BeforePass2(nodes, connections, modules, previousOutputs, depth))

\* --------------------------------------------------- Cycle Utilities (218-278)

\* Lines 222-234: inDegree counts every kept connection, while adj (a Set per
\* node, the same as outEdges above) keeps one entry per destination.
ConnectionInDegree(nodes, connections) ==
  [id \in NodeIdSet(nodes) |->
     Cardinality({j \in DOMAIN connections :
                    Indexed(nodes, connections[j]) /\ connections[j].toNodeId = id})]

RECURSIVE Keys(_, _)
\* The keys of inDegree in insertion order: the ids of nodes[1..i], once each.
Keys(nodes, i) ==
  IF i = 0 THEN <<>> ELSE SetAdd(Keys(nodes, i - 1), nodes[i].id)

RECURSIVE ZeroKeys(_, _, _)
\* Lines 236-239: the first i keys whose in-degree is 0.
ZeroKeys(keys, inDegree, i) ==
  IF i = 0 THEN <<>>
  ELSE LET rest == ZeroKeys(keys, inDegree, i - 1)
       IN IF inDegree[keys[i]] = 0 THEN Append(rest, keys[i]) ELSE rest

RECURSIVE ProcessLoop(_, _, _, _)
\* Lines 241-249: the set `processed` when the queue runs empty.
ProcessLoop(queue, processed, inDegree, adj) ==
  IF queue = <<>> THEN processed
  ELSE LET id == Head(queue)
           r == Relax(adj[id], 1, inDegree, Tail(queue))
       IN ProcessLoop(r.queue, processed \cup {id}, r.inDegree, adj)

\* Line 251.
DetectCycleNodes(nodes, connections) ==
  LET inDegree == ConnectionInDegree(nodes, connections)
      keys == Keys(nodes, Len(nodes))
      processed == ProcessLoop(ZeroKeys(keys, inDegree, Len(keys)), {}, inDegree,
                               OutEdges(nodes, connections))
  IN {id \in NodeIdSet(nodes) : id \notin processed}

RECURSIVE FlaggedIds(_, _, _)
\* Lines 252-254 over the first i connections: filter, then map to ids.
FlaggedIds(connections, cycleNodes, i) ==
  IF i = 0 THEN <<>>
  ELSE LET rest == FlaggedIds(connections, cycleNodes, i - 1)
       IN IF connections[i].fromNodeId \in cycleNodes
             /\ connections[i].toNodeId \in cycleNodes
          THEN Append(rest, connections[i].id) ELSE rest

\* Lines 218-255.
detectCycleConnections(nodes, connections) ==
  FlaggedIds(connections, DetectCycleNodes(nodes, connections), Len(connections))

RECURSIVE AdjListReversed(_, _, _)
\* AdjList with the two ends of a connection swapped.
AdjListReversed(connections, id, i) ==
  IF i = 0 THEN <<>>
  ELSE LET rest == AdjListReversed(connections, id, i - 1)
       IN IF connections[i].toNodeId = id
          THEN Append(rest, connections[i].fromNodeId) ELSE rest

RECURSIVE AdjList(_, _, _)
\* Lines 263-267: adj[id] after the first i connections, duplicates kept.
AdjList(connections, id, i) ==
  IF i = 0 THEN <<>>
  ELSE LET rest == AdjList(connections, id, i - 1)
       IN IF connections[i].fromNodeId = id
          THEN Append(rest, connections[i].toNodeId) ELSE rest

RECURSIVE Bfs(_, _, _, _)
\* Lines 268-277: the search loop; adj[current] || [] is AdjList, which is
\* empty for a node that is the source of no connection.
Bfs(connections, q, visited, fromNodeId) ==
  IF q = <<>> THEN FALSE
  ELSE LET current == Head(q)
       IN IF current = fromNodeId THEN TRUE
          ELSE IF current \in visited
               THEN Bfs(connections, Tail(q), visited, fromNodeId)
               ELSE Bfs(connections,
                        Tail(q) \o AdjList(connections, current, Len(connections)),
                        visited \cup {current}, fromNodeId)

\* Lines 257-278.
wouldCreateCycle(connections, fromNodeId, toNodeId) ==
  IF fromNodeId = toNodeId THEN TRUE
  ELSE Bfs(connections, <<toNodeId>>, {}, fromNodeId)

\* ------------------------------------------------------------ the circuits

\* GATE_CONFIGS: the arities the editor gives a new node of each kind.
GateConfig(type) ==
  CASE type = "AND" -> [inputCount |-> 2, outputCount |-> 1]
    [] type = "OR" -> [inputCount |-> 2, outputCount |-> 1]
    [] type = "NOT" -> [inputCount |-> 1, outputCount |-> 1]
    [] type = "INPUT" -> [inputCount |-> 0, outputCount |-> 1]
    [] type = "OUTPUT" -> [inputCount |-> 1, outputCount |-> 0]
    [] type = "LED" -> [inputCount |-> 1, outputCount |-> 0]
    [] type = "PINBAR" -> [inputCount |-> 0, outputCount |-> 4]

\* A CircuitNode, the fields the engine reads; the optional ones undefined.
Node(id, type, inputCount, outputCount) ==
  [id |-> id, type |-> type, inputCount |-> inputCount, outputCount |-> outputCount,
   inputValue |-> <<>>, pinBarMode |-> "undefined", pinBarValues |-> <<>>,
   moduleId |-> "undefined"]

\* A node as the editor creates it.
Gate(id, type) ==
  Node(id, type, GateConfig(type).inputCount, GateConfig(type).outputCount)

\* A Connection.
Wire(id, fromNodeId, fromPinIndex, toNodeId, toPinIndex) ==
  [id |-> id, fromNodeId |-> fromNodeId, fromPinIndex |-> fromPinIndex,
   toNodeId |-> toNodeId, toPinIndex |-> toPinIndex]

\* Identifiers: the editor draws random UUIDs; any distinct strings do.
NodeIds == <<"n1", "n2", "n3", "n4", "n5", "n6">>
ConnIds == <<"c1", "c2", "c3", "c4", "c5", "c6", "c7", "c8">>

\* Nodes of a drawn circuit, and wires between its pins.
MaxNodes == 3
MaxConns == 2
GateKinds == {"INPUT", "AND", "OR", "NOT", "OUTPUT", "LED"}

RECURSIVE InputPins(_, _)
\* The input pins <<node index, pin index>> of nodes[1..i], in order.
InputPins(nodes, i) ==
  IF i = 0 THEN <<>>
  ELSE InputPins(nodes, i - 1) \o [p \in 1..nodes[i].inputCount |-> <<i, p - 1>>]

\* The output pins <<node index, pin index>> a wire can start from.
OutputPins(nodes) ==
  UNION {{<<i, p - 1>> : p \in 1..nodes[i].outputCount} : i \in DOMAIN nodes}

\* The connection list that feeds each pin of `wired` (a set of positions of
\* `pins`) from the output pin `from` gives it; at most one wire per input
\* pin, as the data model requires.
Wiring(nodes, pins, wired, from) ==
  LET chosen == SelectSeq([k \in DOMAIN pins |-> k], LAMBDA k : k \in wired)
  IN [j \in DOMAIN chosen |->
        Wire(ConnIds[j], nodes[from[chosen[j]][1]].id, from[chosen[j]][2],
             nodes[pins[chosen[j]][1]].id, pins[chosen[j]][2])]

\* Every wiring of `nodes` with at most maxConns wires.
Wirings(nodes, maxConns) ==
  LET pins == InputPins(nodes, Len(nodes))
  IN {Wiring(nodes, pins, wired, from) :
        <<wired, from>> \in
          UNION {{<<w, f>> : f \in [w -> OutputPins(nodes)]} :
                   w \in {w \in SUBSET DOMAIN pins : Cardinality(w) <= maxConns}}}

\* Node lists of 1..MaxNodes gates, INPUTs holding false.
GateLists ==
  UNION {{[i \in 1..n |->
             IF kinds[i] = "INPUT"
             THEN [Gate(NodeIds[i], kinds[i]) EXCEPT !.inputValue = <<FALSE>>]
             ELSE Gate(NodeIds[i], kinds[i])] :
            kinds \in [1..n -> GateKinds]} : n \in 1..MaxNodes}

\* ------------------------------------------------------- the caller's loop

VARIABLES
  nodes,            \* the caller's node list
  connections,      \* the caller's connection list
  modules,          \* the module library
  previousOutputs,  \* the previousOutputs argument of the latest call (optional)
  outputs,          \* the result map the caller retains (optional)
  threw,            \* whether the latest call threw
  pc,               \* "edited": the circuit changed since the latest call;
                    \* "evaluated": outputs is the latest call's result for it
  flagged,          \* the latest result of detectCycleConnections (optional)
  probe,            \* the latest wouldCreateCycle probe and its answer (optional)
  editingModuleId,  \* the id of the definition open for editing (optional)
  dispatched        \* the actions the side menu's latest handler dispatched

vars == <<nodes, connections, modules, previousOutputs, outputs, threw, pc,
          flagged, probe, editingModuleId, dispatched>>

\* The caller stores the result of a call made with `prev`.
Retain(prev, r) ==
  /\ previousOutputs' = prev
  /\ threw' = r.threw
  /\ outputs' = IF r.threw THEN outputs ELSE <<r.outputs>>
  /\ pc' = "evaluated"
  /\ UNCHANGED <<nodes, connections, modules, flagged, probe, editingModuleId,
                 dispatched>>

\* One call of evaluateCircuit on the caller's collections.
Call(prev) == Retain(prev, evaluateCircuit(nodes, connections, modules, prev, 1))

\* The caller evaluates and passes the retained result back in (none on the
\* first call).
Evaluate == Call(outputs)

\* A call without previousOutputs.
EvaluateFresh == outputs # <<>> /\ Call(<<>>)

\* previousOutputs maps a caller may pass: one bit per node.
SeedMaps == {[id \in NodeIdSet(nodes) |-> <<b>>] : b \in BOOLEAN}

\* A call with an arbitrary previousOutputs.
EvaluateSeeded == \E p \in SeedMaps : Call(<<p>>)

\* The user toggles an INPUT.
SetInput ==
  \E i \in DOMAIN nodes :
    /\ nodes[i].type = "INPUT"
    /\ nodes' = [nodes EXCEPT ![i].inputValue = <<~HeldValue(nodes[i])>>]
    /\ pc' = "edited"
    /\ UNCHANGED <<connections, modules, previousOutputs, outputs, threw, flagged,
                   probe, editingModuleId, dispatched>>

Idle ==
  /\ modules = <<>> /\ previousOutputs = <<>> /\ outputs = <<>>
  /\ threw = FALSE /\ pc = "edited" /\ flagged = <<>> /\ probe = <<>>
  /\ editingModuleId = <<>> /\ dispatched = <<>>

Init ==
  /\ nodes \in GateLists
  /\ connections \in Wirings(nodes, MaxConns)
  /\ Idle

Next == Evaluate \/ EvaluateFresh \/ EvaluateSeeded \/ SetInput

Spec == Init /\ [][Next]_vars

\* ------------------------------------------------ the editor's cycle checks

\* The caller flags the feedback wiring.
Detect ==
  /\ flagged' = <<detectCycleConnections(nodes, connections)>>
  /\ UNCHANGED <<nodes, connections, modules, previousOutputs, outputs, threw, pc,
                 probe, editingModuleId, dispatched>>

\* The editor probes a candidate wire between two nodes.
Probe ==
  \E from, to \in NodeIdSet(nodes) :
    /\ probe' = <<[fromNodeId |-> from, toNodeId |-> to,
                   result |-> wouldCreateCycle(connections, from, to)]>>
    /\ UNCHANGED <<nodes, connections, modules, previousOutputs, outputs, threw, pc,
                   flagged, editingModuleId, dispatched>>

\* The nodes the cycle checks are tried on: a source, a two-input gate and
\* two one-input gates, wired in every way.
ProbeKinds == <<"INPUT", "AND", "NOT", "NOT">>

InitCycles ==
  /\ nodes = [i \in DOMAIN ProbeKinds |-> Gate(NodeIds[i], ProbeKinds[i])]
  /\ connections \in Wirings(nodes, Len(InputPins(nodes, Len(nodes))))
  /\ Idle

NextCycles == Detect \/ Probe

SpecCycles == InitCycles /\ [][NextCycles]_vars

\* ------------------------------------------------------ the module library

\* getIONodes: INPUT nodes and input-mode PINBARs are a module's input
\* terminals, OUTPUT nodes and output-mode PINBARs its output terminals.
IsInputNode(n) ==
  n.type = "INPUT" \/ (n.type = "PINBAR" /\ PinBarMode(n) = "input")

IsOutputNode(n) ==
  n.type = "OUTPUT" \/ (n.type = "PINBAR" /\ n.pinBarMode = "output")

RECURSIVE InputCountOf(_, _)
\* calculateIOCounts over the first i input terminals.
InputCountOf(inputNodes, i) ==
  IF i = 0 THEN 0
  ELSE InputCountOf(inputNodes, i - 1)
       + (IF inputNodes[i].type = "INPUT" THEN 1
          ELSE IF inputNodes[i].type = "PINBAR" THEN inputNodes[i].outputCount
          ELSE 0)

RECURSIVE OutputCountOf(_, _)
\* calculateIOCounts over the first i output terminals.
OutputCountOf(outputNodes, i) ==
  IF i = 0 THEN 0
  ELSE OutputCountOf(outputNodes, i - 1)
       + (IF outputNodes[i].type = "OUTPUT" THEN 1
          ELSE IF outputNodes[i].type = "PINBAR" THEN outputNodes[i].inputCount
          ELSE 0)

\* The definition createModule builds from a canvas.
ModuleDefinition(id, name, canvasNodes, canvasConnections) ==
  [id |-> id, name |-> name, nodes |-> canvasNodes, connections |-> canvasConnections,
   inputNodeIds |->
     [k \in DOMAIN SelectSeq(canvasNodes, IsInputNode) |->
        SelectSeq(canvasNodes, IsInputNode)[k].id],
   outputNodeIds |->
     [k \in DOMAIN SelectSeq(canvasNodes, IsOutputNode) |->
        SelectSeq(canvasNodes, IsOutputNode)[k].id],
   inputCount |->
     InputCountOf(SelectSeq(canvasNodes, IsInputNode),
                  Len(SelectSeq(canvasNodes, IsInputNode))),
   outputCount |->
     OutputCountOf(SelectSeq(canvasNodes, IsOutputNode),
                   Len(SelectSeq(canvasNodes, IsOutputNode)))]

\* A MODULE node instantiating the definition `moduleId`.
Instance(id, moduleId, inputCount, outputCount) ==
  [Node(id, "MODULE", inputCount, outputCount) EXCEPT !.moduleId = moduleId]

\* A pin bar `width` pins wide: a source in input mode, a sink in output mode.
PinBar(id, mode, width) ==
  IF mode = "input"
  THEN [Node(id, "PINBAR", 0, width) EXCEPT
          !.pinBarMode = "input", !.pinBarValues = [p \in 1..width |-> FALSE]]
  ELSE [Node(id, "PINBAR", width, 0) EXCEPT !.pinBarMode = "output"]

BodyIds == <<"b1", "b2", "b3", "b4">>

\* Wires inside a module body.
MaxBodyConns == 3

\* The bodies: an INPUT and a two-pin input bar (in either order), one gate
\* or nested instance, one OUTPUT or two-pin output bar, wired in every way
\* with at most MaxBodyConns wires.
BodyGates ==
  {Gate(BodyIds[3], "AND"), Gate(BodyIds[3], "NOT"),
   Instance(BodyIds[3], "m1", 1, 1), Instance(BodyIds[3], "m2", 1, 1)}

BodyLists ==
  {<<t[1], t[2], g, o>> :
     t \in {<<[Gate(BodyIds[1], "INPUT") EXCEPT !.inputValue = <<FALSE>>],
              PinBar(BodyIds[2], "input", 2)>>,
            <<PinBar(BodyIds[1], "input", 2),
              [Gate(BodyIds[2], "INPUT") EXCEPT !.inputValue = <<FALSE>>]>>},
     g \in BodyGates,
     o \in {Gate(BodyIds[4], "OUTPUT"), PinBar(BodyIds[4], "output", 2)}}

\* A second definition: an inverter, or a wrapper around an instance of m1.
Inverter ==
  ModuleDefinition("m2", "Inverter",
    <<[Gate(BodyIds[1], "INPUT") EXCEPT !.inputValue = <<FALSE>>],
      Gate(BodyIds[2], "NOT"), Gate(BodyIds[3], "OUTPUT")>>,
    <<Wire(ConnIds[1], BodyIds[1], 0, BodyIds[2], 0),
      Wire(ConnIds[2], BodyIds[2], 0, BodyIds[3], 0)>>)

Wrapper ==
  ModuleDefinition("m2", "Wrapper",
    <<[Gate(BodyIds[1], "INPUT") EXCEPT !.inputValue = <<FALSE>>],
      Instance(BodyIds[2], "m1", 1, 1), Gate(BodyIds[3], "OUTPUT")>>,
    <<Wire(ConnIds[1], BodyIds[1], 0, BodyIds[2], 0),
      Wire(ConnIds[2], BodyIds[2], 0, BodyIds[3], 0)>>)

\* The libraries: m1 alone, or with a second definition when m1 names it.
Libraries ==
  UNION {{<<ModuleDefinition("m1", "Body", body, wires)>> \o rest :
            wires \in Wirings(body, MaxBodyConns),
            rest \in IF body[3].moduleId = "m2"
                     THEN {<<>>, <<Inverter>>, <<Wrapper>>} ELSE {<<>>}} :
           body \in BodyLists}

\* The enclosing circuit: one INPUT per input pin of an instance of the
\* first definition, and an LED on its output pin 0.
Enclosing(def, held) ==
  [i \in 1..def.inputCount |->
     [Gate(NodeIds[i], "INPUT") EXCEPT !.inputValue = <<held[i]>>]]
  \o <<Instance(NodeIds[def.inputCount + 1], def.id, def.inputCount, def.outputCount),
       Gate(NodeIds[def.inputCount + 2], "LED")>>

EnclosingWires(def) ==
  [i \in 1..def.inputCount |->
     Wire(ConnIds[i], NodeIds[i], 0, NodeIds[def.inputCount + 1], i - 1)]
  \o <<Wire(ConnIds[def.inputCount + 1], NodeIds[def.inputCount + 1], 0,
            NodeIds[def.inputCount + 2], 0)>>

\* The instance declares as many input pins as the definition counts, or one
\* fewer.
InitModules ==
  /\ modules \in Libraries
  /\ \E pins \in {modules[1].inputCount - 1, modules[1].inputCount} :
       /\ nodes \in {Enclosing([modules[1] EXCEPT !.inputCount = pins], held) :
                       held \in [1..pins -> BOOLEAN]}
       /\ connections = EnclosingWires([modules[1] EXCEPT !.inputCount = pins])
  /\ previousOutputs = <<>> /\ outputs = <<>>
  /\ threw = FALSE /\ pc = "edited" /\ flagged = <<>> /\ probe = <<>>
  /\ editingModuleId = <<>> /\ dispatched = <<>>

NextModules == Evaluate \/ EvaluateFresh

SpecModules == InitModules /\ [][NextModules]_vars

\* ------------------------------------------------------- an edit of the wiring

\* The editor probes a candidate wire on the circuit not yet extended.
ProbeCandidate == pc # "connected" /\ Probe

\* The probed wire is drawn to a free input pin of its destination, and the
\* editor flags the feedback wiring of the extended circuit.
Connect ==
  /\ probe # <<>> /\ pc # "connected"
  /\ \E pin \in 0..(nodes[FindNode(nodes, probe[1].toNodeId)].inputCount - 1) :
       /\ FindConn(connections, probe[1].toNodeId, pin) = 0
       /\ connections' = Append(connections,
                                Wire(ConnIds[Len(connections) + 1],
                                     probe[1].fromNodeId, 0, probe[1].toNodeId, pin))
  /\ flagged' = <<detectCycleConnections(nodes, connections')>>
  /\ pc' = "connected"
  /\ UNCHANGED <<nodes, modules, previousOutputs, outputs, threw, probe,
                 editingModuleId, dispatched>>

NextEdit == ProbeCandidate \/ Connect

SpecEdit == InitCycles /\ [][NextEdit]_vars

\* ------------------------------------------------------- faulty collections

\* The kinds the faulty circuits are drawn from; a MODULE node names "m9", a
\* definition no library holds, and declares one input and two outputs.
FaultKinds == {"INPUT", "OR", "NOT", "LED", "MODULE"}

FaultLists ==
  UNION {{[i \in 1..n |->
             IF kinds[i] = "INPUT"
             THEN [Gate(NodeIds[i], kinds[i]) EXCEPT !.inputValue = <<FALSE>>]
             ELSE IF kinds[i] = "MODULE" THEN Instance(NodeIds[i], "m9", 1, 2)
             ELSE Gate(NodeIds[i], kinds[i])] :
            kinds \in [1..n -> FaultKinds]} : n \in 1..MaxNodes}

\* The list without its d-th node (the whole list for d = 0).
Without(list, d) ==
  IF d = 0 THEN list
  ELSE [i \in 1..(Len(list) - 1) |-> IF i < d THEN list[i] ELSE list[i + 1]]

\* previousOutputs maps kept from an earlier circuit: one bit for every id a
\* node ever had, present in the list or not.
StaleMaps == {[id \in Range(NodeIds) |-> <<b>>] : b \in BOOLEAN}

\* A call with a previousOutputs kept from an earlier circuit.
EvaluateStale == \E p \in StaleMaps : Call(<<p>>)

\* A circuit is wired in every way, then one node may be deleted while the
\* connections to and from it stay in the connection list.
InitFaults ==
  /\ \E full \in FaultLists :
       /\ connections \in Wirings(full, MaxConns)
       /\ nodes \in {Without(full, d) : d \in 0..Len(full)}
  /\ modules = <<Inverter>>
  /\ previousOutputs = <<>> /\ outputs = <<>>
  /\ threw = FALSE /\ pc = "edited" /\ flagged = <<>> /\ probe = <<>>
  /\ editingModuleId = <<>> /\ dispatched = <<>>

NextFaults ==
  Evaluate \/ EvaluateFresh \/ EvaluateSeeded \/ EvaluateStale \/ SetInput

SpecFaults == InitFaults /\ [][NextFaults]_vars


\* ------------------------------------------------------------ the side menu

\* Definitions the library may hold.
MaxModules == 3

\* The ids crypto.randomUUID() draws from.
ModuleIds == {"m1", "m2", "m3", "m4"}

\* name.trim() of the answers to the name prompt; "" stands for a cancelled or
\* blank answer.
Names == {"", "Buffer", "Inverter", "Latch"}

Buffer ==
  ModuleDefinition("m1", "Buffer",
    <<[Gate(BodyIds[1], "INPUT") EXCEPT !.inputValue = <<FALSE>>],
      Gate(BodyIds[2], "OUTPUT")>>,
    <<Wire(ConnIds[1], BodyIds[1], 0, BodyIds[2], 0)>>)

\* The tools the menu offers (lines 228 and 235-237): gates, and one MODULE
\* tool for every definition of the library, the one being edited included.
Tools(library) ==
  {[type |-> t, moduleId |-> "undefined"] : t \in {"INPUT", "OUTPUT", "NOT"}}
    \cup {[type |-> "MODULE", moduleId |-> library[m].id] : m \in DOMAIN library}

\* The node the canvas makes of a tool at position i.
Placed(library, tool, i) ==
  IF tool.type = "MODULE"
  THEN Instance(NodeIds[i], tool.moduleId,
                library[FindModule(library, tool.moduleId)].inputCount,
                library[FindModule(library, tool.moduleId)].outputCount)
  ELSE IF tool.type = "INPUT"
       THEN [Gate(NodeIds[i], "INPUT") EXCEPT !.inputValue = <<FALSE>>]
       ELSE Gate(NodeIds[i], tool.type)

\* The canvases built by placing tools.
Canvases(library) ==
  UNION {{[i \in 1..n |-> Placed(library, tools[i], i)] :
            tools \in [1..n -> Tools(library)]} : n \in 0..MaxNodes}

\* modules.find(m => m.name === name): the first index, 0 if none.
FindByName(library, name) ==
  IF \E m \in DOMAIN library : library[m].name = name
  THEN CHOOSE m \in DOMAIN library :
         /\ library[m].name = name
         /\ \A k \in 1..(m - 1) : library[k].name # name
  ELSE 0

\* Lines 89-92 and 116-119: the canvas has an input and an output terminal.
HasTerminals ==
  /\ SelectSeq(nodes, IsInputNode) # <<>>
  /\ SelectSeq(nodes, IsOutputNode) # <<>>

\* An id no definition has and no MODULE node names.
FreshIds ==
  {id \in ModuleIds :
     /\ \A m \in DOMAIN modules : modules[m].id # id
     /\ \A i \in DOMAIN nodes : nodes[i].moduleId # id}

Action(type, module) == [type |-> type, module |-> module]

\* The reducer on CREATE_MODULE.
Created(library, module) == Append(library, module)

\* The reducer on UPDATE_MODULE.
Updated(library, module) ==
  [m \in DOMAIN library |-> IF library[m].id = module.id THEN module ELSE library[m]]

\* The reducer on FINISH_EDIT_MODULE and CLEAR_CANVAS.
FinishEdit ==
  /\ editingModuleId' = <<>>
  /\ nodes' = <<>> /\ connections' = <<>>
  /\ outputs' = <<>> /\ previousOutputs' = <<>> /\ pc' = "edited"
  /\ UNCHANGED <<threw, flagged, probe>>

\* Lines 86-110.
CreateModule ==
  \E name \in Names, id \in FreshIds :
    /\ HasTerminals
    /\ name # ""
    /\ Len(modules) < MaxModules
    /\ dispatched' =
         <<Action("CREATE_MODULE", <<ModuleDefinition(id, name, nodes, connections)>>)>>
    /\ modules' = Created(modules, ModuleDefinition(id, name, nodes, connections))
    /\ UNCHANGED <<nodes, connections, previousOutputs, outputs, threw, pc, flagged,
                   probe, editingModuleId>>

\* Lines 132-161: the name is the name of a definition, the one being edited
\* or another one; that definition gets the canvas.
SaveUpdate(name) ==
  /\ FindByName(modules, name) # 0
  /\ dispatched' =
       <<Action("UPDATE_MODULE",
                <<ModuleDefinition(modules[FindByName(modules, name)].id,
                                   modules[FindByName(modules, name)].name,
                                   nodes, connections)>>),
         Action("FINISH_EDIT_MODULE", <<>>), Action("CLEAR_CANVAS", <<>>)>>
  /\ modules' = Updated(modules, dispatched'[1].module[1])
  /\ FinishEdit

\* Lines 162-177: a new name makes a new definition.
SaveCreate(name) ==
  /\ FindByName(modules, name) = 0
  /\ Len(modules) < MaxModules
  /\ \E id \in FreshIds :
       dispatched' =
         <<Action("CREATE_MODULE", <<ModuleDefinition(id, name, nodes, connections)>>),
           Action("FINISH_EDIT_MODULE", <<>>), Action("CLEAR_CANVAS", <<>>)>>
  /\ modules' = Created(modules, dispatched'[1].module[1])
  /\ FinishEdit

\* Lines 112-178; the banner that holds the save button shows while a
\* definition is being edited (line 254).
SaveEditedModule ==
  \E name \in Names :
    /\ editingModuleId # <<>>
    /\ HasTerminals
    /\ name # ""
    /\ (SaveUpdate(name) \/ SaveCreate(name))

\* Lines 180-183.
CancelEdit ==
  /\ editingModuleId # <<>>
  /\ dispatched' = <<Action("FINISH_EDIT_MODULE", <<>>), Action("CLEAR_CANVAS", <<>>)>>
  /\ FinishEdit
  /\ UNCHANGED modules

\* Lines 185-189: the canvas takes the body of the definition.
EditModule ==
  \E m \in DOMAIN modules :
    /\ dispatched' = <<[type |-> "START_EDIT_MODULE", module |-> <<>>,
                        moduleId |-> modules[m].id]>>
    /\ editingModuleId' = <<modules[m].id>>
    /\ nodes' = modules[m].nodes /\ connections' = modules[m].connections
    /\ outputs' = <<>> /\ previousOutputs' = <<>> /\ pc' = "edited"
    /\ UNCHANGED <<modules, threw, flagged, probe>>

\* A library of two definitions, any canvas built from the menu's tools, and
\* either no definition or one of the two open for editing.
InitMenu ==
  /\ modules = <<Buffer, Inverter>>
  /\ nodes \in Canvases(modules)
  /\ connections = <<>>
  /\ editingModuleId \in {<<>>} \cup {<<modules[m].id>> : m \in DOMAIN modules}
  /\ dispatched = <<>>
  /\ previousOutputs = <<>> /\ outputs = <<>>
  /\ threw = FALSE /\ pc = "edited" /\ flagged = <<>> /\ probe = <<>>

NextMenu == CreateModule \/ SaveEditedModule \/ CancelEdit \/ EditModule

SpecMenu == InitMenu /\ [][NextMenu]_vars

\* ------------------------------------------------- vocabulary of the claims

\* The latest operation was a call, and it returned a result map.
Returned == pc = "evaluated" /\ ~threw

\* The step is a call that got the retained result as previousOutputs.
ThreadedCall == pc' = "evaluated" /\ previousOutputs' = outputs

\* The step is a call without previousOutputs.
FreshCall == pc' = "evaluated" /\ previousOutputs' = <<>>

\* The connection feeding input pin `pin` of node `id` comes from output pin 0
\* of node `from`.
Feeds(from, id, pin) ==
  /\ FindConn(connections, id, pin) # 0
  /\ connections[FindConn(connections, id, pin)].fromNodeId = from
  /\ connections[FindConn(connections, id, pin)].fromPinIndex = 0

RECURSIVE Closure(_, _)
\* The nodes reachable from the set `from` in zero or more connections.
Closure(from, conns) ==
  LET more == from \cup {conns[i].toNodeId :
                           i \in {j \in DOMAIN conns : conns[j].fromNodeId \in from}}
  IN IF more = from THEN from ELSE Closure(more, conns)

\* b is reached from a by following one or more connections forward.
HasPath(conns, a, b) ==
  b \in Closure({conns[i].toNodeId :
                   i \in {j \in DOMAIN conns : conns[j].fromNodeId = a}}, conns)

\* No node reaches itself.
Acyclic(conns) ==
  \A i \in DOMAIN conns : ~HasPath(conns, conns[i].fromNodeId, conns[i].fromNodeId)

\* The orders in which the ids of s can be evaluated.
Orders(s) ==
  {p \in [1..Len(s) -> Range(s)] : \A i, j \in 1..Len(s) : p[i] = p[j] => i = j}

\* ------------------------------------------------------------------ claims

\* The NOT nodes wired to their own input.
SelfLoopNots ==
  {i \in DOMAIN nodes : nodes[i].type = "NOT" /\ Feeds(nodes[i].id, nodes[i].id, 0)}

\* C1: a NOT node whose output is wired to its own input yields [true] on a
\* first call (no previousOutputs), and on every call that gets the previous
\* result as previousOutputs the negation of its previous bit; every such
\* call returns.
C1_NotLoopAlternates ==
  [][ThreadedCall =>
       /\ ~threw'
       /\ \A i \in SelfLoopNots :
            outputs'[1][nodes[i].id] =
              IF outputs = <<>> THEN <<TRUE>>
              ELSE <<~outputs[1][nodes[i].id][1]>>]_vars

\* The circuit is one self-wired NOT, called at least twice with the result
\* threaded: [true] went in and [false] came out.
C1_Witness ==
  /\ Len(nodes) = 1 /\ SelfLoopNots = {1} /\ Returned
  /\ previousOutputs = <<[id \in {nodes[1].id} |-> <<TRUE>>]>>
  /\ outputs = <<[id \in {nodes[1].id} |-> <<FALSE>>]>>

\* The pairs <<o, i>>: OR node o with pin 0 fed by INPUT node i and pin 1 fed
\* by its own output.
Latches ==
  {<<o, i>> \in (DOMAIN nodes) \X (DOMAIN nodes) :
     /\ nodes[o].type = "OR" /\ nodes[i].type = "INPUT"
     /\ Feeds(nodes[i].id, nodes[o].id, 0) /\ Feeds(nodes[o].id, nodes[o].id, 1)}

\* C2: in an OR latch, a call that gets the previous result as previousOutputs
\* keeps an OR result of [true], whatever the INPUT holds by then; a call
\* without previousOutputs returns the INPUT's held value as the OR result.
C2_LatchHolds ==
  [][\A l \in Latches :
       /\ (ThreadedCall /\ outputs # <<>> /\ outputs[1][nodes[l[1]].id] = <<TRUE>>)
            => outputs'[1][nodes[l[1]].id] = <<TRUE>>
       /\ FreshCall => outputs'[1][nodes[l[1]].id] = <<HeldValue(nodes[l[2]])>>]_vars

\* A latch that went through a threaded call still holds [true] while its
\* INPUT holds false.
C2_Witness ==
  /\ Returned /\ previousOutputs # <<>>
  /\ \E l \in Latches :
       /\ ~HeldValue(nodes[l[2]])
       /\ previousOutputs[1][nodes[l[1]].id] = <<TRUE>>
       /\ outputs[1][nodes[l[1]].id] = <<TRUE>>

\* The value input pin k of `node` has in the frozen snapshot: the
\* previousOutputs bit of a cycle-set source, this pass's bit of an acyclic
\* source, false when there is none.
FrozenInput(node, k, cycleSet) ==
  LET c == FindConn(connections, node.id, k)
  IN IF c = 0 THEN FALSE
     ELSE IF connections[c].fromNodeId \in cycleSet
          THEN previousOutputs # <<>>
               /\ At(Get(previousOutputs[1], connections[c].fromNodeId),
                     connections[c].fromPinIndex)
          ELSE At(Get(outputs[1], connections[c].fromNodeId),
                  connections[c].fromPinIndex)

\* C3: the result map of a call is the one pass 2 yields in every order of
\* the cycle-set nodes, and each cycle-set gate's result is its per-kind
\* function of the frozen snapshot alone (a synchronous register update).
C3_Phase2OrderIndependent ==
  Returned =>
    LET b == BeforePass2(nodes, connections, modules, previousOutputs, 1)
    IN /\ \A order \in Orders(b.cycleNodeIds) :
            Return(RunPass2(b, order)).outputs = outputs[1]
       /\ \A i \in DOMAIN nodes :
            (nodes[i].id \in Range(b.cycleNodeIds) /\ nodes[i].type # "MODULE")
              => outputs[1][nodes[i].id] =
                   GateOutput(nodes[i],
                     [k \in 1..nodes[i].inputCount |->
                        FrozenInput(nodes[i], k - 1, Range(b.cycleNodeIds))])

\* A call evaluated a cycle-set node that feeds another cycle-set node and
\* changed its bit in this pass: an order-dependent pass 2 would show it.
C3_Witness ==
  /\ Returned /\ previousOutputs # <<>>
  /\ \E i, j \in DOMAIN nodes :
       /\ i # j
       /\ {nodes[i].id, nodes[j].id}
            \subseteq Range(Sequence(nodes, connections).cycleNodeIds)
       /\ Feeds(nodes[i].id, nodes[j].id, 0)
       /\ previousOutputs[1][nodes[i].id] # outputs[1][nodes[i].id]

\* C4: on a circuit without a directed cycle the result of a call does not
\* depend on previousOutputs: whatever was passed (the previous result, any
\* other map, nothing), it is the result of a first call.
C4_AcyclicIdempotent ==
  (Returned /\ Acyclic(connections)) =>
    /\ outputs[1] = evaluateCircuit(nodes, connections, modules, <<>>, 1).outputs
    /\ outputs[1] = evaluateCircuit(nodes, connections, modules, outputs, 1).outputs

\* A second call on an acyclic circuit with wires, given the first call's
\* result, returned that result again.
C4_Witness ==
  /\ Returned /\ Acyclic(connections) /\ Len(connections) = MaxConns
  /\ previousOutputs = outputs
  /\ \E i \in DOMAIN nodes : outputs[1][nodes[i].id] = <<TRUE>>

\* The nodes of kind AND, OR, NOT, OUTPUT, LED.
NonSources ==
  {i \in DOMAIN nodes : nodes[i].type \in {"AND", "OR", "NOT", "OUTPUT", "LED"}}

\* C10 as stated: without connections every AND, OR, NOT, OUTPUT and LED
\* node yields [false].
C10_AsStated ==
  (Returned /\ connections = <<>>) =>
    \A i \in NonSources : outputs[1][nodes[i].id] = <<FALSE>>

\* C10, amended: without connections every AND, OR, OUTPUT and LED node
\* yields [false] and every NOT node yields [true].
C10_Unconnected ==
  (Returned /\ connections = <<>>) =>
    \A i \in NonSources :
      outputs[1][nodes[i].id] = <<nodes[i].type = "NOT">>

\* A circuit without connections holding a NOT, a two-input gate and a
\* display node was evaluated.
C10_Witness ==
  /\ Returned /\ connections = <<>>
  /\ \E i, j, k \in NonSources :
       /\ nodes[i].type = "NOT" /\ nodes[j].type \in {"AND", "OR"}
       /\ nodes[k].type \in {"OUTPUT", "LED"}

\* C6: wouldCreateCycle answers true exactly when the two ends are the same
\* node or fromNodeId is reached from toNodeId along the connections.
C6_ProbeIsReachability ==
  probe # <<>> =>
    (probe[1].result <=>
       (probe[1].fromNodeId = probe[1].toNodeId
        \/ HasPath(connections, probe[1].toNodeId, probe[1].fromNodeId)))

\* A probe answered true for two distinct nodes with no direct connection
\* back, in a connection list that already holds a cycle.
C6_Witness ==
  /\ probe # <<>> /\ probe[1].result /\ probe[1].fromNodeId # probe[1].toNodeId
  /\ \A i \in DOMAIN connections :
       ~(connections[i].fromNodeId = probe[1].toNodeId
         /\ connections[i].toNodeId = probe[1].fromNodeId)
  /\ ~Acyclic(connections)

\* C7: detectCycleConnections returns the empty list for every circuit in
\* which no node reaches itself.
C7_AcyclicUnflagged ==
  (flagged # <<>> /\ Acyclic(connections)) => flagged[1] = <<>>

\* The nodes that reach themselves.
OnCycle == {id \in NodeIdSet(nodes) : HasPath(connections, id, id)}

\* The connections between two nodes that reach themselves.
Between(ids) ==
  {i \in DOMAIN connections :
     connections[i].fromNodeId \in ids /\ connections[i].toNodeId \in ids}

\* The circuit is one simple directed cycle plus nodes with no connection to
\* or from it: the nodes on a cycle reach each other, each by one connection
\* in and one out, and no connection joins them to the other nodes.
OneCycleApart ==
  /\ OnCycle # {}
  /\ \A a, b \in OnCycle : HasPath(connections, a, b)
  /\ Cardinality(Between(OnCycle)) = Cardinality(OnCycle)
  /\ \A i \in DOMAIN connections :
       connections[i].fromNodeId \in OnCycle <=> connections[i].toNodeId \in OnCycle

\* C8: for one simple cycle plus nodes apart from it, detectCycleConnections
\* returns exactly the ids of the connections forming the cycle.
C8_ExactlyTheCycle ==
  (flagged # <<>> /\ OneCycleApart) =>
    Range(flagged[1]) = {connections[i].id : i \in Between(OnCycle)}

\* C5 as stated: every call of evaluateCircuit, nested module evaluation
\* included, returns a result map.
C5_EveryCallReturns == pc = "evaluated" => ~threw

\* The MODULE nodes of the circuit whose definition is in the library, has an
\* acyclic body, and which are not themselves on a cycle.
Instances ==
  {i \in DOMAIN nodes :
     /\ nodes[i].type = "MODULE"
     /\ FindModule(modules, nodes[i].moduleId) # 0
     /\ Acyclic(modules[FindModule(modules, nodes[i].moduleId)].connections)
     /\ ~HasPath(connections, nodes[i].id, nodes[i].id)}

\* The values the circuit feeds to the input pins of the node `inst`.
Fed(inst) ==
  [p \in 1..inst.inputCount |->
     IF FindConn(connections, inst.id, p - 1) = 0 THEN FALSE
     ELSE At(Get(outputs[1],
                 connections[FindConn(connections, inst.id, p - 1)].fromNodeId),
             connections[FindConn(connections, inst.id, p - 1)].fromPinIndex)]

\* Pins of a terminal: one for an INPUT or OUTPUT, the bar's width otherwise.
TerminalWidth(n) ==
  IF n.type \in {"INPUT", "OUTPUT"} THEN 1
  ELSE IF n.pinBarMode = "output" THEN n.inputCount ELSE n.outputCount

RECURSIVE PinsBefore(_, _)
\* Instance pins taken by the input terminals before position k.
PinsBefore(def, k) ==
  IF k <= 1 THEN 0
  ELSE PinsBefore(def, k - 1)
       + TerminalWidth(def.nodes[FindNode(def.nodes, def.inputNodeIds[k - 1])])

\* The body with its input terminals holding the values `fed`, pin by pin in
\* inputNodeIds order.
Holding(def, fed) ==
  [i \in DOMAIN def.nodes |->
     LET n == def.nodes[i]
         ks == {k \in DOMAIN def.inputNodeIds : def.inputNodeIds[k] = n.id}
     IN IF ks = {} THEN n
        ELSE LET first == PinsBefore(def, CHOOSE k \in ks : TRUE)
             IN IF n.type = "INPUT"
                THEN [n EXCEPT !.inputValue = <<At(fed, first)>>]
                ELSE [n EXCEPT !.pinBarValues =
                        [p \in 1..n.outputCount |-> At(fed, first + p - 1)]]]

RECURSIVE TerminalValues(_, _, _)
\* The values at the first k output terminals, in outputNodeIds order.
TerminalValues(def, out, k) ==
  IF k = 0 THEN <<>>
  ELSE TerminalValues(def, out, k - 1)
       \o [p \in 1..TerminalWidth(def.nodes[FindNode(def.nodes, def.outputNodeIds[k])]) |->
             At(Get(out, def.outputNodeIds[k]), p - 1)]

\* C9: the output vector of a MODULE node whose definition has an acyclic
\* body is, bit for bit, the values at the body's output terminals (in
\* outputNodeIds order) when the body is evaluated standalone with its input
\* terminals holding the values the circuit feeds to the node's input pins.
C9_ModuleRoundTrip ==
  Returned =>
    \A i \in Instances :
      LET def == modules[FindModule(modules, nodes[i].moduleId)]
          alone == evaluateCircuit(Holding(def, Fed(nodes[i])), def.connections,
                                   modules, <<>>, 1)
      IN /\ ~alone.threw
         /\ outputs[1][nodes[i].id]
              = TerminalValues(def, alone.outputs, Len(def.outputNodeIds))

\* An instance was evaluated whose body lists a pin bar before an INPUT
\* terminal and ends in an output bar, fed values that differ from pin to
\* pin, with a true and a false bit in its output vector.
C9_Witness ==
  /\ Returned
  /\ \E i \in Instances :
       LET def == modules[FindModule(modules, nodes[i].moduleId)]
       IN /\ def.nodes[1].type = "PINBAR" /\ def.nodes[2].type = "INPUT"
          /\ def.nodes[4].type = "PINBAR"
          /\ Range(Fed(nodes[i])) = BOOLEAN
          /\ Range(outputs[1][nodes[i].id]) = BOOLEAN

\* The INPUT nodes wired to input pin `pin` of nodes[i] (at most one).
InputsInto(i, pin) ==
  {j \in DOMAIN nodes : nodes[j].type = "INPUT" /\ Feeds(nodes[j].id, nodes[i].id, pin)}

\* C11: within one call, an AND node wired to two INPUT nodes holding a and b
\* yields [a AND b], an OR node [a OR b], a NOT node wired to an INPUT holding
\* a yields [NOT a], and an OUTPUT or LED node wired to it yields [a].
C11_TruthTables ==
  Returned =>
    \A i \in DOMAIN nodes :
      /\ \A a \in InputsInto(i, 0) :
           /\ nodes[i].type = "NOT"
                => outputs[1][nodes[i].id] = <<~HeldValue(nodes[a])>>
           /\ nodes[i].type \in {"OUTPUT", "LED"}
                => outputs[1][nodes[i].id] = <<HeldValue(nodes[a])>>
           /\ \A b \in InputsInto(i, 1) :
                /\ nodes[i].type = "AND"
                     => outputs[1][nodes[i].id]
                          = <<HeldValue(nodes[a]) /\ HeldValue(nodes[b])>>
                /\ nodes[i].type = "OR"
                     => outputs[1][nodes[i].id]
                          = <<HeldValue(nodes[a]) \/ HeldValue(nodes[b])>>

\* An OR node wired to two INPUT nodes, one holding true and one holding
\* false, was evaluated and yielded [true].
C11_Witness ==
  /\ Returned
  /\ \E i \in DOMAIN nodes :
       /\ nodes[i].type = "OR" /\ outputs[1][nodes[i].id] = <<TRUE>>
       /\ \E a \in InputsInto(i, 0), b \in InputsInto(i, 1) :
            HeldValue(nodes[a]) /\ ~HeldValue(nodes[b])

\* The position of `id` in the sequence s.
PositionIn(s, id) == CHOOSE k \in DOMAIN s : s[k] = id

\* The connections whose two endpoints are nodes of the list.
Present == {i \in DOMAIN connections : {connections[i].fromNodeId, connections[i].toNodeId} \subseteq NodeIdSet(nodes)}

\* C12: the evaluation sequence holds every node exactly once, every node
\* outside the cycle set comes before every node of the cycle set, and every
\* node outside the cycle set comes after every node that feeds it.
C12_SequencerContract ==
  pc = "evaluated" =>
    LET seq == Sequence(nodes, connections)
        cycleSet == Range(seq.cycleNodeIds)
    IN /\ Len(seq.sorted) = Len(nodes)
       /\ Range(seq.sorted) = NodeIdSet(nodes)
       /\ \A i, j \in DOMAIN seq.sorted :
            (seq.sorted[i] \notin cycleSet /\ seq.sorted[j] \in cycleSet) => i < j
       /\ \A c \in Present :
            connections[c].toNodeId \notin cycleSet =>
              PositionIn(seq.sorted, connections[c].fromNodeId)
                < PositionIn(seq.sorted, connections[c].toNodeId)

\* A circuit was evaluated in which a node outside the cycle set is fed by a
\* node listed after it, and another node is in the cycle set.
C12_Witness ==
  /\ pc = "evaluated"
  /\ Sequence(nodes, connections).cycleNodeIds # <<>>
  /\ \E c \in Present :
       /\ connections[c].toNodeId \notin Range(Sequence(nodes, connections).cycleNodeIds)
       /\ FindNode(nodes, connections[c].toNodeId)
            < FindNode(nodes, connections[c].fromNodeId)

\* The connection list with the connections to or from absent nodes removed.
Kept == SelectSeq(connections, LAMBDA c : {c.fromNodeId, c.toNodeId} \subseteq NodeIdSet(nodes))

\* C13: a call returns the result map it returns on the connection list
\* without the connections whose source or destination is absent, and the
\* cycle set is the cycle set of that list.
C13_DanglingIgnored ==
  Returned =>
    /\ outputs[1] = evaluateCircuit(nodes, Kept, modules, previousOutputs, 1).outputs
    /\ Sequence(nodes, connections).cycleNodeIds = Sequence(nodes, Kept).cycleNodeIds

\* A circuit was evaluated whose connection list holds a connection from an
\* absent node into a present one and a connection from a present node to an
\* absent one, with a true bit in the result.
C13_Witness ==
  /\ Returned
  /\ \E c, d \in DOMAIN connections :
       /\ connections[c].fromNodeId \notin NodeIdSet(nodes)
       /\ connections[c].toNodeId \in NodeIdSet(nodes)
       /\ connections[d].fromNodeId \in NodeIdSet(nodes)
       /\ connections[d].toNodeId \notin NodeIdSet(nodes)
  /\ \E i \in DOMAIN nodes : TRUE \in Range(outputs[1][nodes[i].id])

\* The MODULE nodes whose moduleId names no definition of the library.
Unresolved ==
  {i \in DOMAIN nodes :
     /\ nodes[i].type = "MODULE"
     /\ \A m \in DOMAIN modules : modules[m].id # nodes[i].moduleId}

\* C14: a MODULE node naming no definition yields outputCount false bits,
\* whatever its wiring and previousOutputs; every node of the circuit has a
\* result, and every other node's result is its per-kind function of the
\* values on its input pins.
C14_UnresolvedModule ==
  (Returned /\ Unresolved # {}) =>
    /\ \A i \in Unresolved :
         outputs[1][nodes[i].id] = [k \in 1..nodes[i].outputCount |-> FALSE]
    /\ DOMAIN outputs[1] = NodeIdSet(nodes)
    /\ \A i \in DOMAIN nodes :
         nodes[i].type # "MODULE" =>
           outputs[1][nodes[i].id] =
             GateOutput(nodes[i],
               [k \in 1..nodes[i].inputCount |->
                  FrozenInput(nodes[i], k - 1,
                              Range(Sequence(nodes, connections).cycleNodeIds))])

\* A call evaluated a MODULE node naming no definition, wired to its own
\* input and seeded [true] by previousOutputs, with another node fed by it.
C14_Witness ==
  /\ Returned /\ previousOutputs # <<>>
  /\ \E i \in Unresolved :
       /\ Feeds(nodes[i].id, nodes[i].id, 0)
       /\ previousOutputs[1][nodes[i].id] = <<TRUE>>
       /\ \E j \in DOMAIN nodes :
            /\ j # i /\ FindConn(connections, nodes[j].id, 0) # 0
            /\ connections[FindConn(connections, nodes[j].id, 0)].fromNodeId = nodes[i].id
            /\ outputs[1][nodes[j].id] = <<TRUE>>

\* C15 as stated: every node of the cycle set of a call reaches itself by
\* following connections forward.
C15_CycleSetOnCycles ==
  pc = "evaluated" =>
    \A id \in Range(Sequence(nodes, connections).cycleNodeIds) :
      HasPath(connections, id, id)

\* C20: every node fed by a cycle-set node through a connection between two
\* present nodes is in the cycle set; so every input a node outside the
\* cycle set has is read from the live outputs, never the frozen snapshot.
C20_CycleSetClosed ==
  pc = "evaluated" =>
    LET cycleSet == Range(Sequence(nodes, connections).cycleNodeIds)
    IN /\ \A c \in Present :
            connections[c].fromNodeId \in cycleSet
              => connections[c].toNodeId \in cycleSet
       /\ \A c \in DOMAIN connections :
            (connections[c].toNodeId \in NodeIdSet(nodes) \ cycleSet)
              => ReadFrom(FALSE, connections[c].fromNodeId, cycleSet,
                          "outputs", "frozenOutputs") = "outputs"

\* A circuit was evaluated in which a node of the cycle set feeds a node that
\* no path leads back to, and another node is outside the cycle set.
C20_Witness ==
  /\ pc = "evaluated"
  /\ \E c \in Present :
       /\ connections[c].fromNodeId \in Range(Sequence(nodes, connections).cycleNodeIds)
       /\ ~HasPath(connections, connections[c].toNodeId, connections[c].toNodeId)
  /\ NodeIdSet(nodes) \ Range(Sequence(nodes, connections).cycleNodeIds) # {}

\* The definitions (positions in the library) instantiated by the body of
\* the definition at position m.
Instantiates(m) ==
  {FindModule(modules, modules[m].nodes[i].moduleId) :
     i \in {j \in DOMAIN modules[m].nodes : modules[m].nodes[j].type = "MODULE"}} \ {0}

RECURSIVE InstantiatesClosure(_)
\* The definitions reached from the set ms by instantiation.
InstantiatesClosure(ms) ==
  LET more == ms \cup UNION {Instantiates(m) : m \in ms}
  IN IF more = ms THEN ms ELSE InstantiatesClosure(more)

\* The definition at position m instantiates itself, directly or through
\* other definitions.
SelfReferential(m) == m \in InstantiatesClosure(Instantiates(m))

\* C19: a call on a circuit holding a MODULE node of a definition that
\* instantiates itself, directly or through other definitions, does not
\* return a result map.
C19_SelfReferenceNeverReturns ==
  (pc = "evaluated"
   /\ \E i \in DOMAIN nodes :
        /\ nodes[i].type = "MODULE"
        /\ FindModule(modules, nodes[i].moduleId) # 0
        /\ SelfReferential(FindModule(modules, nodes[i].moduleId)))
    => threw

\* A call did not return on a circuit instantiating a definition that
\* reaches itself only through a second definition.
C19_Witness ==
  /\ pc = "evaluated" /\ threw
  /\ \E i \in DOMAIN nodes :
       /\ nodes[i].type = "MODULE"
       /\ FindModule(modules, nodes[i].moduleId) # 0
       /\ SelfReferential(FindModule(modules, nodes[i].moduleId))
       /\ FindModule(modules, nodes[i].moduleId)
            \notin Instantiates(FindModule(modules, nodes[i].moduleId))

\* The MODULE nodes of the circuit whose definition is in the library and
\* which are not on a cycle.
Resolved ==
  {i \in DOMAIN nodes :
     /\ nodes[i].type = "MODULE"
     /\ FindModule(modules, nodes[i].moduleId) # 0
     /\ ~HasPath(connections, nodes[i].id, nodes[i].id)}

\* C17: the working copy of a module body holds, in each input terminal, the
\* instance's input values from the offset that is the sum of the widths of
\* the terminals before it in inputNodeIds order (false beyond the
\* instance's inputCount), and is the body otherwise.
C17_InputFlattening ==
  Returned =>
    \A i \in Resolved :
      LET def == modules[FindModule(modules, nodes[i].moduleId)]
      IN InternalNodes(def, ModuleInputValues(def, Fed(nodes[i]),
                                              Len(def.inputNodeIds)))
           = Holding(def, Fed(nodes[i]))

\* An instance declaring one pin fewer than its definition counts was
\* evaluated, its definition listing a pin bar before an INPUT terminal, fed
\* false on its first pin and true on its last.
C17_Witness ==
  /\ Returned
  /\ \E i \in Resolved :
       LET def == modules[FindModule(modules, nodes[i].moduleId)]
       IN /\ def.nodes[1].type = "PINBAR" /\ def.nodes[2].type = "INPUT"
          /\ nodes[i].inputCount < def.inputCount
          /\ ~Fed(nodes[i])[1] /\ Fed(nodes[i])[nodes[i].inputCount]

RECURSIVE BoundaryValues(_, _, _)
\* What the first k output terminals pass out of a body whose result map is
\* `out`: an OUTPUT its own bit, an output bar the bit wired to each pin.
BoundaryValues(def, out, k) ==
  IF k = 0 THEN <<>>
  ELSE LET n == def.nodes[FindNode(def.nodes, def.outputNodeIds[k])]
       IN BoundaryValues(def, out, k - 1)
          \o (IF n.type = "OUTPUT" THEN <<At(Get(out, n.id), 0)>>
              ELSE [p \in 1..n.inputCount |->
                      IF FindConn(def.connections, n.id, p - 1) = 0 THEN FALSE
                      ELSE At(Get(out, def.connections[
                                         FindConn(def.connections, n.id, p - 1)].fromNodeId),
                              def.connections[
                                FindConn(def.connections, n.id, p - 1)].fromPinIndex)])

\* C16: the vector of a MODULE node outside the cycle set is the one a call
\* without previousOutputs gives it, whatever previousOutputs the call got
\* and however many calls came before; it is what the body, evaluated from
\* an empty snapshot on the values fed to the node, passes out of its output
\* terminals, also when the body holds a feedback loop.
C16_NoStateAcrossBoundary ==
  Returned =>
    \A i \in Resolved :
      nodes[i].id \notin Range(Sequence(nodes, connections).cycleNodeIds) =>
        LET def == modules[FindModule(modules, nodes[i].moduleId)]
        IN /\ outputs[1][nodes[i].id]
                = evaluateCircuit(nodes, connections, modules, <<>>, 1).outputs[nodes[i].id]
           /\ outputs[1][nodes[i].id]
                = BoundaryValues(def,
                    evaluateCircuit(Holding(def, Fed(nodes[i])), def.connections,
                                    modules, <<>>, 1).outputs,
                    Len(def.outputNodeIds))

\* A call given the previous result evaluated an instance whose body holds a
\* feedback loop, and the instance yielded a true bit.
C16_Witness ==
  /\ Returned /\ previousOutputs # <<>>
  /\ \E i \in Resolved :
       /\ ~Acyclic(modules[FindModule(modules, nodes[i].moduleId)].connections)
       /\ TRUE \in Range(outputs[1][nodes[i].id])

\* The OUTPUT and LED nodes.
Displays == {i \in DOMAIN nodes : nodes[i].type \in {"OUTPUT", "LED"}}

\* The bit, in the result map `map` (optional), of the source output wired
\* to input pin 0 of `node`; false if the pin is unwired or there is no map.
SourceBit(node, map) ==
  /\ FindConn(connections, node.id, 0) # 0
  /\ map # <<>>
  /\ At(Get(map[1], connections[FindConn(connections, node.id, 0)].fromNodeId),
        connections[FindConn(connections, node.id, 0)].fromPinIndex)

\* C21 as stated: in every result map the bit of each OUTPUT or LED node is
\* the bit, in the same map, of the source output wired to its input pin.
C21_AsStated ==
  Returned => \A i \in Displays : outputs[1][nodes[i].id] = <<SourceBit(nodes[i], outputs)>>

\* C21, amended: the bit of each OUTPUT or LED node is the bit of the source
\* output wired to its input pin in the same result map, unless the source
\* is in the cycle set: then it is the source's bit in previousOutputs.
C21_DisplayReadsFrozen ==
  Returned =>
    \A i \in Displays :
      outputs[1][nodes[i].id] =
        <<IF FindConn(connections, nodes[i].id, 0) # 0
             /\ connections[FindConn(connections, nodes[i].id, 0)].fromNodeId
                  \in Range(Sequence(nodes, connections).cycleNodeIds)
          THEN SourceBit(nodes[i], previousOutputs)
          ELSE SourceBit(nodes[i], outputs)>>

\* A call given a previous result evaluated an OUTPUT or LED node fed by a
\* node of the cycle set whose bit changed in this call.
C21_Witness ==
  /\ Returned /\ previousOutputs # <<>>
  /\ \E i \in Displays :
       /\ FindConn(connections, nodes[i].id, 0) # 0
       /\ connections[FindConn(connections, nodes[i].id, 0)].fromNodeId
            \in Range(Sequence(nodes, connections).cycleNodeIds)
       /\ SourceBit(nodes[i], previousOutputs) # SourceBit(nodes[i], outputs)

\* C22 as stated: when a wire is added to a circuit without a directed cycle,
\* the probe made for it answered true exactly when detectCycleConnections
\* returns a non-empty list for the extended circuit.
C22_ProbeAgreesWithDetector ==
  (pc = "connected" /\ Acyclic(SubSeq(connections, 1, Len(connections) - 1)))
    => (probe[1].result <=> flagged[1] # <<>>)

\* The bit input pin `pin` of the node reads in a call: false when unwired,
\* the previousOutputs bit of a source in the cycle set, the returned bit of
\* any other source.
InputBit(node, pin, cycleSet) ==
  /\ FindConn(connections, node.id, pin) # 0
  /\ LET c == connections[FindConn(connections, node.id, pin)]
     IN IF c.fromNodeId \in cycleSet
        THEN /\ previousOutputs # <<>>
             /\ At(Get(previousOutputs[1], c.fromNodeId), c.fromPinIndex)
        ELSE At(Get(outputs[1], c.fromNodeId), c.fromPinIndex)

\* C23: the returned map has exactly the node ids of the circuit as keys,
\* whatever keys previousOutputs and the connections name, and every entry is
\* the node's function of the bits its pins read in this call (outputCount
\* false bits for a MODULE node naming no definition), in the cycle set too.
C23_KeysAndFreshEntries ==
  Returned =>
    /\ DOMAIN outputs[1] = NodeIdSet(nodes)
    /\ \A i \in DOMAIN nodes :
         LET cycleSet == Range(Sequence(nodes, connections).cycleNodeIds)
         IN outputs[1][nodes[i].id] =
              IF i \in Unresolved THEN [k \in 1..nodes[i].outputCount |-> FALSE]
              ELSE GateOutput(nodes[i],
                              [k \in 1..nodes[i].inputCount |->
                                 InputBit(nodes[i], k - 1, cycleSet)])

\* A call returned on a previousOutputs naming an id the circuit lacks, with a
\* connection naming an absent node, and a cycle-set node whose entry differs
\* from its previousOutputs entry.
C23_Witness ==
  /\ Returned /\ previousOutputs # <<>>
  /\ ~(DOMAIN previousOutputs[1] \subseteq NodeIdSet(nodes))
  /\ Present # DOMAIN connections
  /\ \E id \in Range(Sequence(nodes, connections).cycleNodeIds) :
       /\ id \in DOMAIN previousOutputs[1]
       /\ outputs[1][id] # previousOutputs[1][id]

\* The definitions the side menu's latest handler dispatched.
DispatchedModules ==
  {dispatched[k].module[1] :
     k \in {j \in DOMAIN dispatched :
              /\ dispatched[j].type \in {"CREATE_MODULE", "UPDATE_MODULE"}
              /\ dispatched[j].module # <<>>}}

\* C24 as stated: no definition dispatched by createModule or saveEditedModule
\* holds a MODULE node whose moduleId is the definition's own id.
C24_NoSelfReferenceDispatched ==
  \A def \in DispatchedModules :
    \A i \in DOMAIN def.nodes :
      ~(def.nodes[i].type = "MODULE" /\ def.nodes[i].moduleId = def.id)

\* An OUTPUT terminal made a one-pin output bar, a one-pin output bar made an
\* OUTPUT; any other node as it is.
OtherKind(n) ==
  IF n.type = "OUTPUT" THEN PinBar(n.id, "output", 1)
  ELSE IF n.type = "PINBAR" /\ n.pinBarMode = "output" /\ n.inputCount = 1
       THEN Gate(n.id, "OUTPUT")
       ELSE n

\* The definition with its one-pin output terminals of the other kind, on the
\* same wiring.
Swapped(def) ==
  ModuleDefinition(def.id, def.name, [i \in DOMAIN def.nodes |-> OtherKind(def.nodes[i])],
                   def.connections)

\* The instances of the first definition, when it has a terminal to swap.
Swappable ==
  {i \in Resolved :
     /\ nodes[i].moduleId = modules[1].id
     /\ Swapped(modules[1]) # modules[1]}

\* The outcome of the latest call had the first definition been the swapped
\* one.
WithSwapped ==
  evaluateCircuit(nodes, connections, <<Swapped(modules[1])>> \o Tail(modules),
                  previousOutputs, 1)

\* C25 as stated: the vector of a MODULE node is the same whichever kind of
\* one-pin terminal exposes each bit.
C25_AsStated ==
  Returned =>
    \A i \in Swappable :
      /\ ~WithSwapped.threw
      /\ WithSwapped.outputs[nodes[i].id] = outputs[1][nodes[i].id]

RECURSIVE OutPinsBefore(_, _)
\* Vector positions taken by the output terminals before position k.
OutPinsBefore(def, k) ==
  IF k <= 1 THEN 0
  ELSE OutPinsBefore(def, k - 1)
       + TerminalWidth(def.nodes[FindNode(def.nodes, def.outputNodeIds[k - 1])])

\* The one-pin output terminals of the definition (positions in
\* outputNodeIds) whose pin is wired from a node of the body's cycle set.
LoopFed(def) ==
  {k \in DOMAIN def.outputNodeIds :
     LET n == def.nodes[FindNode(def.nodes, def.outputNodeIds[k])]
     IN /\ OtherKind(n) # n
        /\ FindConn(def.connections, n.id, 0) # 0
        /\ def.connections[FindConn(def.connections, n.id, 0)].fromNodeId
             \in Range(Sequence(def.nodes, def.connections).cycleNodeIds)}

\* C25: swapping the kind of the one-pin output terminals leaves every bit of
\* the MODULE node's vector unchanged, except the bit of a terminal whose
\* source is in the body's cycle set: there an OUTPUT exposes false and a
\* one-pin bar the source's bit in the body's result.
C25_TerminalKind ==
  Returned =>
    \A i \in Swappable :
      LET def == modules[1]
          id == nodes[i].id
          body == evaluateCircuit(Holding(def, Fed(nodes[i])), def.connections,
                                  modules, <<>>, 1).outputs
      IN /\ ~WithSwapped.threw
         /\ Len(WithSwapped.outputs[id]) = Len(outputs[1][id])
         /\ \A k \in DOMAIN def.outputNodeIds :
              LET n == def.nodes[FindNode(def.nodes, def.outputNodeIds[k])]
                  first == OutPinsBefore(def, k)
              IN IF k \in LoopFed(def)
                 THEN LET c == def.connections[FindConn(def.connections, n.id, 0)]
                          bit == At(Get(body, c.fromNodeId), c.fromPinIndex)
                      IN /\ outputs[1][id][first + 1]
                              = (n.type # "OUTPUT" /\ bit)
                         /\ WithSwapped.outputs[id][first + 1]
                              = (n.type = "OUTPUT" /\ bit)
                 ELSE \A p \in 1..TerminalWidth(n) :
                        WithSwapped.outputs[id][first + p] = outputs[1][id][first + p]

\* An instance was evaluated whose body ends in an OUTPUT fed by a node of the
\* body's cycle set holding true, and the swapped body gives another vector.
C25_Witness ==
  /\ Returned
  /\ \E i \in Swappable :
       /\ LoopFed(modules[1]) # {}
       /\ WithSwapped.outputs[nodes[i].id] # outputs[1][nodes[i].id]

====
